---- MODULE Spec2Model ----
(***************************************************************************)
(* Model of api/classes: the request handler that fetches a WebTrac detail *)
(* page, parses it into raw events (structured table parser, then a loose  *)
(* fallback), classifies them and projects them onto a Monday-based week   *)
(* grid.                                                                   *)
(*                                                                         *)
(* Text is a sequence of lexemes.  A lexeme is a one-character string, or  *)
(* an atomic date-shaped or time-shaped token (a key of DateLex/TimeLex)   *)
(* standing for the run of characters that the source's regular            *)
(* expressions \d{1,2}\/\d{1,2}\/\d{4} and \d{1,2}:\d{2}\s*[AP]M read.      *)
(* Instants are whole minutes since 2024-01-01T00:00Z (a Monday); every    *)
(* instant the program builds is a whole minute.                           *)
(* An event's url (absolutize) feeds no decision and is left out.  The     *)
(* field at of a raw event (table and row it was read from; table 0 for an *)
(* li element) and the field n of a grid event (its place in rawEvents)    *)
(* are history fields: the program has no such fields.                     *)
(***************************************************************************)
EXTENDS Integers, Sequences, FiniteSets, TLC

VARIABLES
    \* ---- one request through handler() ----
    pc,          \* position of the handler
    start,       \* req.query.start, as text
    end,         \* req.query.end, as text
    debug,       \* req.query.debug === "1"
    configured,  \* process.env.WEBTRAC_DETAIL_BASE is set
    tz,          \* host timezone: local time = UTC + tz minutes
    html,        \* the fetched document
    fetchCount,  \* number of outbound requests issued
    fetchOk,     \* fetchHtml returned a body
    calls,       \* the functions the handler has called, in order
    detailOut,   \* what parseDetailHtml returned
    fbOut,       \* what parseFallback returned
    rawEvents,   \* the handler's rawEvents
    monday,      \* the week anchor
    cursor,      \* index of the next raw event of the projection loop
    CALS,        \* the bucket map under construction
    kept,        \* indices of the raw events the projection pushed
    responses,   \* responses written to res
    \* ---- one application of a pure helper ----
    arg,         \* the helper's arguments
    ret,         \* the helper's result
    returned     \* the helper has returned

handlerVars == <<pc, start, end, debug, configured, tz, html, fetchCount, fetchOk,
                 calls, detailOut, fbOut, rawEvents, monday, cursor,
                 CALS, kept, responses>>
helperVars == <<arg, ret, returned>>
vars == <<handlerVars, helperVars>>

(***************************************************************************)
(* Bounds of the checked inputs.                                           *)
(***************************************************************************)
MaxWords == 3      \* words in a title given to guessCal

(***************************************************************************)
(* Text primitives.                                                        *)
(***************************************************************************)
UpperCase == <<"A", "B", "C", "D", "E", "F", "G", "H", "I", "J", "K", "L", "M", "N", "O", "P", "Q", "R", "S", "T", "U", "V", "W", "X", "Y", "Z">>
LowerCase == <<"a", "b", "c", "d", "e", "f", "g", "h", "i", "j", "k", "l", "m", "n", "o", "p", "q", "r", "s", "t", "u", "v", "w", "x", "y", "z">>
Digits == {"0", "1", "2", "3", "4", "5", "6", "7", "8", "9"}
Range(s) == {s[i] : i \in DOMAIN s}

\* String.prototype.toLowerCase, one lexeme at a time
toLowerChar(c) ==
    IF \E i \in DOMAIN UpperCase : UpperCase[i] = c
    THEN LowerCase[CHOOSE i \in DOMAIN UpperCase : UpperCase[i] = c]
    ELSE c
toLowerCase(s) == [i \in DOMAIN s |-> toLowerChar(s[i])]

\* \s of the regular expressions
IsSpace(c) == c \in {" ", "\n", "\t"}

\* String.prototype.includes
includes(h, k) ==
    \E i \in 0..(Len(h) - Len(k)) : \A j \in 1..Len(k) : h[i + j] = k[j]

RECURSIVE collapse(_)
\* replace(/\s+/g, " ")
collapse(s) ==
    IF s = <<>> THEN <<>>
    ELSE IF IsSpace(Head(s))
         THEN IF Len(s) > 1 /\ IsSpace(s[2])
              THEN collapse(Tail(s))
              ELSE <<" ">> \o collapse(Tail(s))
         ELSE <<Head(s)>> \o collapse(Tail(s))

\* String.prototype.trim
trim(s) ==
    IF \A i \in DOMAIN s : IsSpace(s[i]) THEN <<>>
    ELSE LET a == CHOOSE i \in DOMAIN s :
                     ~IsSpace(s[i]) /\ \A j \in 1..(i - 1) : IsSpace(s[j])
             b == CHOOSE i \in DOMAIN s :
                     ~IsSpace(s[i]) /\ \A j \in (i + 1)..Len(s) : IsSpace(s[j])
         IN SubSeq(s, a, b)

\* clean(s): String(s || "").replace(/\s+/g, " ").trim()
clean(s) == trim(collapse(s))

(***************************************************************************)
(* Date-shaped and time-shaped tokens.                                     *)
(***************************************************************************)
DateLex ==
    [x \in {"01/15/2024", "1/17/2024", "01/21/2024", "01/22/2024", "01/14/2024",
            "02/01/2024", "13/45/2024"} |->
        CASE x = "01/15/2024" -> [mm |-> 1, dd |-> 15, yyyy |-> 2024]
          [] x = "1/17/2024"  -> [mm |-> 1, dd |-> 17, yyyy |-> 2024]
          [] x = "01/21/2024" -> [mm |-> 1, dd |-> 21, yyyy |-> 2024]
          [] x = "01/22/2024" -> [mm |-> 1, dd |-> 22, yyyy |-> 2024]
          [] x = "01/14/2024" -> [mm |-> 1, dd |-> 14, yyyy |-> 2024]
          [] x = "02/01/2024" -> [mm |-> 2, dd |-> 1, yyyy |-> 2024]
          [] x = "13/45/2024" -> [mm |-> 13, dd |-> 45, yyyy |-> 2024]]
\* hh:mm with its meridiem ("" when the text has none)
TimeLex ==
    [x \in {"10:00 AM", "11:30 AM", "11:59 PM", "12:00 AM", "9:00PM", "10:00", "11:30",
            "10:75 AM"} |->
        CASE x = "10:00 AM" -> [hh |-> 10, mi |-> 0, mer |-> "AM"]
          [] x = "11:30 AM" -> [hh |-> 11, mi |-> 30, mer |-> "AM"]
          [] x = "11:59 PM" -> [hh |-> 11, mi |-> 59, mer |-> "PM"]
          [] x = "12:00 AM" -> [hh |-> 12, mi |-> 0, mer |-> "AM"]
          [] x = "9:00PM"   -> [hh |-> 9, mi |-> 0, mer |-> "PM"]
          [] x = "10:00"    -> [hh |-> 10, mi |-> 0, mer |-> ""]
          [] x = "11:30"    -> [hh |-> 11, mi |-> 30, mer |-> ""]
          [] x = "10:75 AM" -> [hh |-> 10, mi |-> 75, mer |-> "AM"]]
IsDateLex(c) == c \in DOMAIN DateLex
IsTimeLex(c) == c \in DOMAIN TimeLex

\* \w of the regular expressions; a date or time token begins and ends with one
IsWordChar(c) ==
    \/ c \in Range(UpperCase) \cup Range(LowerCase) \cup Digits \cup {"_"}
    \/ IsDateLex(c)
    \/ IsTimeLex(c)

\* \b between s[p] and s[p + 1] (p = 0: before the text, p = Len(s): after it)
WordBoundary(s, p) ==
    LET before == p >= 1 /\ IsWordChar(s[p])
        after  == p < Len(s) /\ IsWordChar(s[p + 1])
    IN before # after

\* /\b(k1|k2|...)\b/.test(s)
TestWords(s, keys) ==
    \E k \in keys : \E i \in 0..(Len(s) - Len(k)) :
        /\ \A j \in 1..Len(k) : s[i + j] = k[j]
        /\ WordBoundary(s, i)
        /\ WordBoundary(s, i + Len(k))

(***************************************************************************)
(* Calendar classifier.                                                    *)
(***************************************************************************)
Aquatics == <<"A", "q", "u", "a", "t", "i", "c", "s">>
CourtSports == <<"C", "o", "u", "r", "t", " ", "S", "p", "o", "r", "t", "s">>
Community == <<"C", "o", "m", "m", "u", "n", "i", "t", "y">>
Schedule == <<"S", "c", "h", "e", "d", "u", "l", "e">>
AquaticsKeys == {<<"a", "q", "u", "a">>, <<"w", "a", "t", "e", "r">>, <<"s", "w", "i", "m">>, <<"p", "o", "o", "l">>}
CourtKeys == {<<"p", "i", "c", "k", "l", "e", "b", "a", "l", "l">>, <<"b", "a", "s", "k", "e", "t", "b", "a", "l", "l">>, <<"v", "o", "l", "l", "e", "y", "b", "a", "l", "l">>, <<"c", "o", "u", "r", "t">>}
CommunityKeys == {<<"y", "o", "g", "a">>, <<"c", "o", "f", "f", "e", "e">>, <<"t", "e", "e", "n">>, <<"c", "o", "m", "m", "u", "n", "i", "t", "y">>, <<"w", "e", "l", "l", "n", "e", "s", "s">>}
NoLoc == <<>>   \* loc is null (or ""): `loc || ""`

\* guessCal with the first two tests swapped
guessCalCourtFirst(title, loc) ==
    LET t == toLowerCase(title \o <<" ">> \o loc) IN
    IF TestWords(t, CourtKeys) THEN CourtSports
    ELSE IF TestWords(t, AquaticsKeys) THEN Aquatics
    ELSE IF TestWords(t, CommunityKeys) THEN Community
    ELSE Schedule

guessCal(title, loc) ==
    LET t == toLowerCase(title \o <<" ">> \o loc) IN
    IF TestWords(t, AquaticsKeys) THEN Aquatics
    ELSE IF TestWords(t, CourtKeys) THEN CourtSports
    ELSE IF TestWords(t, CommunityKeys) THEN Community
    ELSE Schedule

colorForCal(cal) ==
    IF cal = Aquatics THEN "blue"
    ELSE IF cal = CourtSports THEN "orange"
    ELSE IF cal = Community THEN "pink"
    ELSE "gray"

(***************************************************************************)
(* Dates.  A Date is [nan, v]: nan for an Invalid Date, else v minutes     *)
(* since 2024-01-01T00:00Z.  All modelled dates lie in 2024.               *)
(***************************************************************************)
NaN == [nan |-> TRUE, v |-> 0]
Num(n) == [nan |-> FALSE, v |-> n]
IsNaN(d) == d.nan
MinutesPerDay == 1440    \* 86400000 ms
MinutesPerHour == 60
DaysPerWeek == 7
\* days of 2024 before the first of each month
DaysBeforeMonth == <<0, 31, 60, 91, 121, 152, 182, 213, 244, 274, 305, 335>>
DayNumber(mm, dd) == DaysBeforeMonth[mm] + dd - 1

DigitValue(c) ==
    CASE c = "0" -> 0 [] c = "1" -> 1 [] c = "2" -> 2 [] c = "3" -> 3 [] c = "4" -> 4
      [] c = "5" -> 5 [] c = "6" -> 6 [] c = "7" -> 7 [] c = "8" -> 8 [] c = "9" -> 9

\* /^\d{4}-\d{2}-\d{2}$/.test(s)
IsYMD(s) ==
    /\ Len(s) = 10
    /\ \A i \in {1, 2, 3, 4, 6, 7, 9, 10} : s[i] \in Digits
    /\ s[5] = "-"
    /\ s[8] = "-"

\* new Date("YYYY-MM-DD"): a date-only ISO text is read as UTC midnight
DateFromYMD(s) ==
    LET mm == DigitValue(s[6]) * 10 + DigitValue(s[7])
        dd == DigitValue(s[9]) * 10 + DigitValue(s[10])
    IN IF mm \in 1..12 /\ dd \in 1..31
       THEN Num(DayNumber(mm, dd) * MinutesPerDay)
       ELSE NaN

\* new Date("<date> <time>"): a date-and-time text without zone is read as local time
DateFromLocal(date, time, zone) ==
    LET d == DateLex[date]
        t == TimeLex[time]
        hour == IF t.mer = "PM" THEN (t.hh % 12) + 12 ELSE t.hh % 12
    IN IF d.mm \in 1..12 /\ d.dd \in 1..31 /\ t.hh \in 1..12 /\ t.mi \in 0..59
       THEN Num(DayNumber(d.mm, d.dd) * MinutesPerDay + hour * MinutesPerHour + t.mi - zone)
       ELSE NaN

\* toISO(s): null for an Invalid Date, else the ISO text of the instant
NoISO == [null |-> TRUE, utc |-> 0]
toISO(date, time, zone) ==
    LET d == DateFromLocal(date, time, zone)
    IN IF IsNaN(d) THEN NoISO ELSE [null |-> FALSE, utc |-> d.v]
\* new Date(iso)
DateFromISO(iso) == IF iso.null THEN NaN ELSE Num(iso.utc)

\* Date.prototype.getDay in the host zone (0 = Sunday); day 0 of the model is a Monday
getDay(d, zone) == (((d.v + zone) \div MinutesPerDay) + 1) % DaysPerWeek
\* getHours() * 60 + getMinutes() in the host zone
MinutesOfDay(d, zone) == (d.v + zone) % MinutesPerDay

getMonday(d, zone) ==
    IF IsNaN(d) THEN NaN
    ELSE LET day == (getDay(d, zone) + 6) % DaysPerWeek
             localDay == (d.v + zone) \div MinutesPerDay
         IN Num((localDay - day) * MinutesPerDay - zone)

(***************************************************************************)
(* Documents.  A document is its table elements in document order and its  *)
(* li elements after them.  A table is [th, rows]: the texts of its        *)
(* thead th cells and its tbody tr rows; a row is its td cells; a cell or  *)
(* an item is [text, link]: all its text and the text of its first a       *)
(* element (empty when it has none).                                       *)
(***************************************************************************)
\* [-\u2013\u2014]: hyphen, en dash, em dash (the dashes as entity-named lexemes)
Dashes == {"-", "&ndash;", "&mdash;"}
TitleLimit == 160
MinHeaderCells == 3
MinBodyRows == 1

\* headers.findIndex(h => keys.some(k => h.includes(k))), over an ordered key list
RECURSIVE findIndex(_, _, _)
findIndex(headers, keys, from) ==
    IF from > Len(headers) THEN -1
    ELSE IF \E n \in DOMAIN keys : includes(headers[from], keys[n]) THEN from - 1
    ELSE findIndex(headers, keys, from + 1)

\* the column of the earliest key that some header contains
RECURSIVE findHeaderByKeyOrder(_, _)
findHeaderByKeyOrder(headers, keys) ==
    IF keys = <<>> THEN -1
    ELSE IF \E i \in DOMAIN headers : includes(headers[i], Head(keys))
         THEN (CHOOSE i \in DOMAIN headers :
                  /\ includes(headers[i], Head(keys))
                  /\ \A j \in 1..(i - 1) : ~includes(headers[j], Head(keys))) - 1
         ELSE findHeaderByKeyOrder(headers, Tail(keys))

findHeader(headers, keys) == findIndex(headers, keys, 1)

DateKeys == <<<<"d", "a", "t", "e">>>>
TimeKeys == <<<<"t", "i", "m", "e">>, <<"h", "o", "u", "r", "s">>, <<"s", "t", "a", "r", "t">>>>
ActivityKeys == <<<<"a", "c", "t", "i", "v", "i", "t", "y">>, <<"c", "l", "a", "s", "s">>, <<"t", "i", "t", "l", "e">>, <<"d", "e", "s", "c", "r", "i", "p", "t", "i", "o", "n">>, <<"p", "r", "o", "g", "r", "a", "m">>,
                  <<"c", "o", "u", "r", "s", "e">>>>
LocationKeys == <<<<"l", "o", "c", "a", "t", "i", "o", "n">>, <<"r", "o", "o", "m">>, <<"f", "a", "c", "i", "l", "i", "t", "y">>>>

\* the header texts and the four resolved column roles of a table
ResolveHeaders(th) ==
    LET headers == [i \in DOMAIN th |-> toLowerCase(clean(th[i]))]
    IN [headers |-> headers,
        idxDate |-> findHeader(headers, DateKeys),
        idxTime |-> findHeader(headers, TimeKeys),
        idxAct  |-> findHeader(headers, ActivityKeys),
        idxLoc  |-> findHeader(headers, LocationKeys)]

\* $tds.eq(i): the i-th cell (from 0), or an empty selection
NoCell == [text |-> <<>>, link |-> <<>>]
eq(tds, i) == IF i >= 0 /\ i < Len(tds) THEN tds[i + 1] ELSE NoCell
\* idxAct >= 0 ? $tds.eq(idxAct) : $tds.eq(0)
ActCellIndex(idxAct) == IF idxAct >= 0 THEN idxAct ELSE 0

\* the first match of /\d{1,2}\/\d{1,2}\/\d{4}/, with \b around it when bounded
FirstDate(s, bounded) ==
    LET hit(i) == /\ IsDateLex(s[i])
                  /\ bounded => (WordBoundary(s, i - 1) /\ WordBoundary(s, i))
    IN IF \E i \in DOMAIN s : hit(i)
       THEN <<s[CHOOSE i \in DOMAIN s : hit(i) /\ \A j \in 1..(i - 1) : ~hit(j)]>>
       ELSE <<>>

\* /\d{1,2}:\d{2}\s*[AP]M/i matches the lexeme
IsClockTime(c) == IsTimeLex(c) /\ TimeLex[c].mer # ""

\* the first match of /(time)\s*[-–—]\s*(time)/i: <<start, end>>, or <<>>
FirstRange(s) ==
    LET hit(i, j) ==
            /\ i < j
            /\ IsClockTime(s[i])
            /\ IsClockTime(s[j])
            /\ \E k \in (i + 1)..(j - 1) :
                  /\ s[k] \in Dashes
                  /\ \A m \in ((i + 1)..(j - 1)) \ {k} : IsSpace(s[m])
        first(i) == \E j \in DOMAIN s : hit(i, j)
    IN IF \E i \in DOMAIN s : first(i)
       THEN LET i == CHOOSE a \in DOMAIN s : first(a) /\ \A b \in 1..(a - 1) : ~first(b)
                j == CHOOSE b \in DOMAIN s : hit(i, b)
            IN <<s[i], s[j]>>
       ELSE <<>>

\* parseDateTime / parseDateTimeLoose: <<>> for null, else <<[date, start, end]>>
NoDT == <<>>
parseDateTime(dateText, timeText) ==
    LET date == FirstDate(dateText, FALSE)
        times == FirstRange(IF timeText # <<>> THEN timeText ELSE dateText)
    IN IF date = <<>> \/ times = <<>> THEN NoDT
       ELSE <<[date |-> date[1], start |-> times[1], end |-> times[2]]>>
parseDateTimeLoose(text) ==
    LET date == FirstDate(text, TRUE)
        times == FirstRange(text)
    IN IF date = <<>> \/ times = <<>> THEN NoDT
       ELSE <<[date |-> date[1], start |-> times[1], end |-> times[2]]>>

\* the body of the row callback of parseDetailHtml: the events the row adds
DetailRow(tds, idx, zone, at) ==
    LET dateText == IF idx.idxDate >= 0 THEN clean(eq(tds, idx.idxDate).text) ELSE <<>>
        timeText == IF idx.idxTime >= 0 THEN clean(eq(tds, idx.idxTime).text) ELSE <<>>
        actCell  == eq(tds, ActCellIndex(idx.idxAct))
        titleRaw == clean(actCell.text)
        title    == IF titleRaw # <<>> THEN titleRaw ELSE clean(actCell.link)
        loc      == IF idx.idxLoc >= 0 THEN clean(eq(tds, idx.idxLoc).text) ELSE NoLoc
        strict   == parseDateTime(dateText, timeText)
        dt       == IF strict # NoDT THEN strict ELSE parseDateTimeLoose(actCell.text)
    IN IF Len(tds) = 0 THEN <<>>
       ELSE IF title = <<>> THEN <<>>
       ELSE IF dt = NoDT THEN <<>>
       ELSE LET startISO == toISO(dt[1].date, dt[1].start, zone)
                endISO   == toISO(dt[1].date, dt[1].end, zone)
            IN IF startISO.null \/ endISO.null THEN <<>>
               ELSE <<[cal |-> guessCal(title, loc), title |-> title,
                       startISO |-> startISO, endISO |-> endISO,
                       location |-> loc, at |-> at]>>

\* the row loop ended by the first row that adds nothing
RECURSIVE DetailRowsUntilSkip(_, _, _, _, _)
DetailRowsUntilSkip(rows, idx, zone, tab, n) ==
    IF n > Len(rows) THEN <<>>
    ELSE IF DetailRow(rows[n], idx, zone, <<tab, n>>) = <<>> THEN <<>>
    ELSE DetailRow(rows[n], idx, zone, <<tab, n>>)
            \o DetailRowsUntilSkip(rows, idx, zone, tab, n + 1)

\* $table.find("tbody tr").each(...): every row is visited, in order
RECURSIVE DetailRows(_, _, _, _, _)
DetailRows(rows, idx, zone, tab, n) ==
    IF n > Len(rows) THEN <<>>
    ELSE DetailRow(rows[n], idx, zone, <<tab, n>>) \o DetailRows(rows, idx, zone, tab, n + 1)

Qualifies(table) == Len(table.th) >= MinHeaderCells /\ Len(table.rows) >= MinBodyRows

\* $("table").each(...): the table the loop leaves in $table (0: none)
RECURSIVE SelectLast(_, _, _)
SelectLast(tables, n, sel) ==
    IF n > Len(tables) THEN sel
    ELSE SelectLast(tables, n + 1, IF Qualifies(tables[n]) THEN n ELSE sel)

RECURSIVE SelectFrom(_, _, _)
SelectFrom(tables, n, sel) ==
    IF n > Len(tables) THEN sel
    ELSE SelectFrom(tables, n + 1, IF Qualifies(tables[n]) /\ sel = 0 THEN n ELSE sel)

SelectTable(tables) == SelectFrom(tables, 1, 0)

NoIdx == [headers |-> <<>>, idxDate |-> -1, idxTime |-> -1, idxAct |-> -1, idxLoc |-> -1]
parseDetailHtml(doc, zone) ==
    LET sel == SelectTable(doc.tables)
    IN IF sel = 0
       THEN [events |-> <<>>, diag |-> [foundTable |-> FALSE, table |-> 0, idx |-> NoIdx]]
       ELSE LET idx == ResolveHeaders(doc.tables[sel].th)
            IN [events |-> DetailRows(doc.tables[sel].rows, idx, zone, sel, 1),
                diag |-> [foundTable |-> TRUE, table |-> sel, idx |-> idx]]

(***************************************************************************)
(* Fallback parser.                                                        *)
(***************************************************************************)
RECURSIVE JoinTexts(_)
\* the text of an element: the texts of its children, a line break between them
JoinTexts(ts) ==
    IF ts = <<>> THEN <<>>
    ELSE IF Len(ts) = 1 THEN ts[1]
    ELSE ts[1] \o <<"\n">> \o JoinTexts(Tail(ts))

FirstLink(cells) ==
    IF \E i \in DOMAIN cells : cells[i].link # <<>>
    THEN cells[CHOOSE i \in DOMAIN cells :
                  cells[i].link # <<>> /\ \A j \in 1..(i - 1) : cells[j].link = <<>>].link
    ELSE <<>>

\* the tr elements of a table as blocks: its header row, then its body rows
TableBlocks(table, tab) ==
    (IF table.th = <<>> THEN <<>>
     ELSE <<[text |-> JoinTexts(table.th), link |-> <<>>, at |-> <<tab, 0>>]>>)
    \o [n \in DOMAIN table.rows |->
          [text |-> JoinTexts([i \in DOMAIN table.rows[n] |-> table.rows[n][i].text]),
           link |-> FirstLink(table.rows[n]),
           at   |-> <<tab, n>>]]

RECURSIVE AllTableBlocks(_, _)
AllTableBlocks(tables, n) ==
    IF n > Len(tables) THEN <<>>
    ELSE TableBlocks(tables[n], n) \o AllTableBlocks(tables, n + 1)

\* $('tr, li, .row, .result, .item, [class*="result"], [class*="row"]')
Blocks(doc) ==
    AllTableBlocks(doc.tables, 1)
    \o [n \in DOMAIN doc.items |->
          [text |-> doc.items[n].text, link |-> doc.items[n].link, at |-> <<0, n>>]]

\* text.split("\n")
RECURSIVE split(_)
split(s) ==
    IF \A i \in DOMAIN s : s[i] # "\n" THEN <<s>>
    ELSE LET k == CHOOSE i \in DOMAIN s : s[i] = "\n" /\ \A j \in 1..(i - 1) : s[j] # "\n"
         IN <<SubSeq(s, 1, k - 1)>> \o split(SubSeq(s, k + 1, Len(s)))

\* (lines.map(clean).find(s => s && !/\d{1,2}:\d{2}\s*[AP]M/i.test(s)) || "").slice(0, 160)
FirstPlainLine(text) ==
    LET lines == [i \in DOMAIN split(text) |-> clean(split(text)[i])]
        plain(i) == lines[i] # <<>> /\ \A j \in DOMAIN lines[i] : ~IsClockTime(lines[i][j])
    IN IF \E i \in DOMAIN lines : plain(i)
       THEN LET l == lines[CHOOSE i \in DOMAIN lines :
                             plain(i) /\ \A j \in 1..(i - 1) : ~plain(j)]
            IN SubSeq(l, 1, IF Len(l) < TitleLimit THEN Len(l) ELSE TitleLimit)
       ELSE <<>>

\* the body of the block callback of parseFallback: the events the block adds
FallbackBlock(block, zone) ==
    LET text  == clean(block.text)
        dt    == parseDateTimeLoose(text)
        link  == clean(block.link)
        title == IF link # <<>> THEN link ELSE FirstPlainLine(text)
    IN IF \A i \in DOMAIN text : ~IsDateLex(text[i]) THEN <<>>
       ELSE IF dt = NoDT THEN <<>>
       ELSE IF title = <<>> THEN <<>>
       ELSE LET startISO == toISO(dt[1].date, dt[1].start, zone)
                endISO   == toISO(dt[1].date, dt[1].end, zone)
            IN IF startISO.null \/ endISO.null THEN <<>>
               ELSE <<[cal |-> guessCal(title, NoLoc), title |-> title,
                       startISO |-> startISO, endISO |-> endISO,
                       location |-> NoLoc, at |-> block.at]>>

\* blocks.each(...): every block is visited, in order
RECURSIVE FallbackBlocks(_, _, _)
FallbackBlocks(blocks, zone, n) ==
    IF n > Len(blocks) THEN <<>>
    ELSE FallbackBlock(blocks[n], zone) \o FallbackBlocks(blocks, zone, n + 1)

parseFallback(doc, zone) ==
    [events |-> FallbackBlocks(Blocks(doc), zone, 1), diag |-> [mode |-> "fallback"]]

(***************************************************************************)
(* The handler's state before a request; the helper specifications leave   *)
(* it there.                                                               *)
(***************************************************************************)
NoDoc == [tables |-> <<>>, items |-> <<>>]
NoDetail == [events |-> <<>>, diag |-> [foundTable |-> FALSE, table |-> 0, idx |-> NoIdx]]
NoFallback == [events |-> <<>>, diag |-> [mode |-> "fallback"]]

HandlerIdle ==
    /\ pc = "idle"
    /\ start = <<>> /\ end = <<>> /\ debug = FALSE /\ configured = FALSE /\ tz = 0
    /\ html = NoDoc /\ fetchCount = 0 /\ fetchOk = FALSE
    /\ calls = <<>> /\ detailOut = NoDetail /\ fbOut = NoFallback
    /\ rawEvents = <<>> /\ monday = NaN /\ cursor = 1
    /\ CALS = <<>> /\ kept = <<>> /\ responses = <<>>

(***************************************************************************)
(* guessCal applied to one title and location.                             *)
(***************************************************************************)
RECURSIVE JoinWords(_)
JoinWords(ws) ==
    IF ws = <<>> THEN <<>>
    ELSE IF Len(ws) = 1 THEN ws[1]
    ELSE ws[1] \o <<" ">> \o JoinWords(Tail(ws))

Vocabulary == {<<"A", "q", "u", "a">>, <<"B", "a", "s", "k", "e", "t", "b", "a", "l", "l">>, <<"C", "l", "i", "n", "i", "c">>, <<"S", "w", "i", "m", "m", "i", "n", "g">>, <<"Y", "O", "G", "A">>}
Titles == {JoinWords(ws) : ws \in UNION {[1..n -> Vocabulary] : n \in 0..MaxWords}}
Locations == {NoLoc, <<"P", "o", "o", "l">>, <<"C", "o", "u", "r", "t", "y", "a", "r", "d">>, <<"T", "e", "e", "n", " ", "C", "e", "n", "t", "e", "r">>}

InitClassify ==
    /\ HandlerIdle
    /\ arg \in [title : Titles, loc : Locations]
    /\ ret = <<>>
    /\ returned = FALSE

Classify ==
    /\ ~returned
    /\ ret' = guessCal(arg.title, arg.loc)
    /\ returned' = TRUE
    /\ UNCHANGED <<arg, handlerVars>>

SpecClassify == InitClassify /\ [][Classify]_vars

\* the maximal runs of word characters of a text
WordsOf(t) ==
    LET starts == {a \in DOMAIN t :
                      IsWordChar(t[a]) /\ (a = 1 \/ ~IsWordChar(t[a - 1]))}
        stop(a) == CHOOSE b \in a..Len(t) :
                      /\ \A i \in a..b : IsWordChar(t[i])
                      /\ (b = Len(t) \/ ~IsWordChar(t[b + 1]))
    IN {SubSeq(t, a, stop(a)) : a \in starts}
ClassifiedText == toLowerCase(arg.title \o <<" ">> \o arg.loc)
ContainsAny(t, keys) == \E k \in keys : includes(t, k)
HasWord(t, keys) == WordsOf(t) \cap keys # {}

\* C4 as stated: the first group, in the order Aquatics, Court Sports, Community,
\* one of whose keywords the lowercased title-and-location text contains decides
\* the label, and "Schedule" is returned when the text contains none.
C4_FirstGroupContained ==
    returned =>
        ret = IF ContainsAny(ClassifiedText, AquaticsKeys) THEN Aquatics
              ELSE IF ContainsAny(ClassifiedText, CourtKeys) THEN CourtSports
              ELSE IF ContainsAny(ClassifiedText, CommunityKeys) THEN Community
              ELSE Schedule

\* C4 amended: the first group, in the order Aquatics, Court Sports, Community,
\* one of whose keywords is a whole word of the lowercased title-and-location text
\* decides the label, "Schedule" is returned when no keyword is a whole word of
\* it, and "Aqua Basketball Clinic" is classified "Aquatics".
C4_FirstGroupWholeWord ==
    returned =>
        /\ ret = IF HasWord(ClassifiedText, AquaticsKeys) THEN Aquatics
                 ELSE IF HasWord(ClassifiedText, CourtKeys) THEN CourtSports
                 ELSE IF HasWord(ClassifiedText, CommunityKeys) THEN Community
                 ELSE Schedule
        /\ arg.title = <<"A", "q", "u", "a", " ", "B", "a", "s", "k", "e", "t", "b", "a", "l", "l", " ", "C", "l", "i", "n", "i", "c">> => ret = Aquatics

C4_Witness ==
    /\ returned
    /\ arg.title = <<"A", "q", "u", "a", " ", "B", "a", "s", "k", "e", "t", "b", "a", "l", "l", " ", "C", "l", "i", "n", "i", "c">>
    /\ arg.loc = NoLoc
    /\ ret = Aquatics

(***************************************************************************)
(* The request handler.                                                    *)
(***************************************************************************)
MaxTables == 2     \* table elements of a fetched document
MaxItems == 1      \* li elements of a fetched document

Cell(text) == [text |-> text, link |-> <<>>]
Linked(text) == [text |-> text, link |-> text]
Slot(a, b) == <<a, " ", "-", " ", b>>

Th4 == <<<<"D", "a", "t", "e">>, <<"T", "i", "m", "e">>, <<"A", "c", "t", "i", "v", "i", "t", "y">>, <<"L", "o", "c", "a", "t", "i", "o", "n">>>>
Th3 == <<<<"D", "a", "t", "e">>, <<"T", "i", "m", "e">>, <<"A", "c", "t", "i", "v", "i", "t", "y">>>>
Th2 == <<<<"D", "a", "t", "e">>, <<"C", "l", "a", "s", "s">>>>

\* a week of classes: Monday, Sunday 23:59, Wednesday, and the Monday after
WeekTable ==
    [th |-> Th4,
     rows |-> <<
        <<Cell(<<"01/15/2024">>), Cell(Slot("10:00 AM", "11:30 AM")),
          Linked(<<"A", "q", "u", "a", " ", "F", "i", "t">>), Cell(<<"P", "o", "o", "l">>)>>,
        <<Cell(<<"01/21/2024">>), Cell(Slot("11:59 PM", "11:59 PM")),
          Cell(<<"Y", "o", "g", "a">>), Cell(<<"S", "t", "u", "d", "i", "o">>)>>,
        <<Cell(<<"1/17/2024">>), Cell(<<"10:00 AM", "-", "11:30 AM">>),
          Cell(<<"S", "w", "i", "m", " ", "T", "e", "a", "m">>), Cell(<<>>)>>,
        <<Cell(<<"01/22/2024">>), Cell(Slot("12:00 AM", "10:00 AM")),
          Cell(<<"L", "a", "p", " ", "S", "w", "i", "m">>), Cell(<<"P", "o", "o", "l">>)>> >>]
\* rows that yield nothing: no AM/PM, no title, an impossible date
BrokenTable ==
    [th |-> Th3,
     rows |-> <<
        <<Cell(<<"01/15/2024">>), Cell(Slot("10:00", "11:30")), Cell(<<"Z", "u", "m", "b", "a">>)>>,
        <<Cell(<<"01/15/2024">>), Cell(Slot("10:00 AM", "11:30 AM")), Cell(<<" ">>)>>,
        <<Cell(<<"13/45/2024">>), Cell(Slot("10:00 AM", "11:30 AM")),
          Linked(<<"T", "e", "e", "n", " ", "N", "i", "g", "h", "t">>)>> >>]
\* too few header cells for the structured parser
NarrowTable ==
    [th |-> Th2,
     rows |-> <<
        <<Cell(<<"01/15/2024", " ", "10:00 AM", "-", "11:30 AM">>),
          Linked(<<"P", "i", "c", "k", "l", "e", "b", "a", "l", "l">>)>> >>]
TablePool == {WeekTable, BrokenTable, NarrowTable}

OpenGym ==
    [text |-> <<"O", "p", "e", "n", " ", "G", "y", "m">> \o <<"\n", "1/17/2024", " ", "9:00PM", " ", "-", " ", "11:59 PM">>,
     link |-> <<"O", "p", "e", "n", " ", "G", "y", "m">>]
Unlinked ==
    [text |-> <<"C", "o", "f", "f", "e", "e", " ", "H", "o", "u", "r">> \o <<"\n", "01/15/2024", " ", "10:00 AM", "-", "11:30 AM">>,
     link |-> <<>>]
ItemPool == {OpenGym, Unlinked}

SeqsUpTo(S, n) == UNION {[1..k -> S] : k \in 0..n}
Documents == [tables : SeqsUpTo(TablePool, MaxTables), items : SeqsUpTo(ItemPool, MaxItems)]

StartTexts == {<<"2", "0", "2", "4", "-", "0", "1", "-", "1", "5">>, <<"2", "0", "2", "4", "-", "0", "1", "-", "1", "7">>, <<"2", "0", "2", "4", "-", "0", "1", "-", "2", "1">>, <<"2", "0", "2", "4", "-", "1", "3", "-", "0", "1">>,
               <<"2", "0", "2", "4", "-", "1", "-", "1", "5">>, <<>>}
EndTexts == {<<"2", "0", "2", "4", "-", "0", "1", "-", "2", "1">>, <<"0", "1", "/", "2", "1", "/", "2", "0", "2", "4">>}
Zones == {-300, 0, 540}
Statuses == {200, 204, 301, 404, 500}

Init ==
    /\ pc = "validate"
    /\ start \in StartTexts
    /\ end \in EndTexts
    /\ debug \in BOOLEAN
    /\ configured \in BOOLEAN
    /\ tz \in Zones
    /\ html = NoDoc /\ fetchCount = 0 /\ fetchOk = FALSE
    /\ calls = <<>> /\ detailOut = NoDetail /\ fbOut = NoFallback
    /\ rawEvents = <<>> /\ monday = NaN /\ cursor = 1
    /\ CALS = <<>> /\ kept = <<>> /\ responses = <<>>
    /\ arg = <<>> /\ ret = <<>> /\ returned = FALSE

\* line 27, with only start tested
ValidRangeStartOnly(startText, endText) == IsYMD(startText)
\* line 27
ValidRange(startText, endText) == IsYMD(startText) /\ IsYMD(endText)

\* line 42, with the fallback tried whatever the structured parser found
NeedsFallbackAlways(events) == TRUE
\* line 42
NeedsFallback(events) == Len(events) = 0

\* res.status(status).json({ error })
ErrorResponse(status, message, code) ==
    [status |-> status, kind |-> "error", error |-> [message |-> message, code |-> code],
     CALS |-> <<>>]
requestVars == <<start, end, debug, configured, tz>>

\* lines 23-32: the two parameters are tested, then the configuration
Validate ==
    /\ pc = "validate"
    /\ IF ~ValidRange(start, end)
       THEN /\ responses' = Append(responses,
                    ErrorResponse(400, "Provide start and end as YYYY-MM-DD", 0))
            /\ pc' = "done"
       ELSE IF ~configured
       THEN /\ responses' = Append(responses,
                    ErrorResponse(500, "WEBTRAC_DETAIL_BASE not configured", 0))
            /\ pc' = "done"
       ELSE /\ pc' = "fetch"
            /\ UNCHANGED responses
    /\ UNCHANGED <<requestVars, html, fetchCount, fetchOk, calls, detailOut, fbOut,
                   rawEvents, monday, cursor, CALS, kept, helperVars>>

\* line 38 and fetchHtml: one request; a status outside 200..299 throws
Fetch ==
    /\ pc = "fetch"
    /\ fetchCount' = fetchCount + 1
    /\ calls' = Append(calls, "fetchHtml")
    /\ \E statusCode \in Statuses :
         IF statusCode < 200 \/ statusCode >= 300
         THEN /\ responses' = Append(responses,
                      ErrorResponse(500, "Fetch failed", statusCode))
              /\ pc' = "done"
              /\ UNCHANGED <<html, fetchOk>>
         ELSE /\ \E body \in Documents : html' = body
              /\ fetchOk' = TRUE
              /\ pc' = "parse"
              /\ UNCHANGED responses
    /\ UNCHANGED <<requestVars, detailOut, fbOut, rawEvents, monday, cursor, CALS, kept,
                   helperVars>>

\* request() or body.text() rejects: the catch block answers
FetchThrows ==
    /\ pc = "fetch"
    /\ fetchCount' = fetchCount + 1
    /\ calls' = Append(calls, "fetchHtml")
    /\ responses' = Append(responses, ErrorResponse(500, "Scrape failed", 0))
    /\ pc' = "done"
    /\ UNCHANGED <<requestVars, html, fetchOk, detailOut, fbOut, rawEvents, monday, cursor,
                   CALS, kept, helperVars>>

\* line 41
ParseStructured ==
    /\ pc = "parse"
    /\ calls' = Append(calls, "parseDetailHtml")
    /\ detailOut' = parseDetailHtml(html, tz)
    /\ rawEvents' = detailOut'.events
    /\ pc' = "fallback"
    /\ UNCHANGED <<requestVars, html, fetchCount, fetchOk, fbOut, monday, cursor, CALS, kept,
                   responses, helperVars>>

\* lines 42-46 with the fallback taken
UseFallback ==
    /\ pc = "fallback"
    /\ NeedsFallback(rawEvents)
    /\ calls' = Append(calls, "parseFallback")
    /\ fbOut' = parseFallback(html, tz)
    /\ rawEvents' = fbOut'.events
    /\ pc' = "anchor"
    /\ UNCHANGED <<requestVars, html, fetchCount, fetchOk, detailOut, monday, cursor, CALS,
                   kept, responses, helperVars>>

\* lines 42-46 with the fallback skipped
SkipFallback ==
    /\ pc = "fallback"
    /\ ~NeedsFallback(rawEvents)
    /\ pc' = "anchor"
    /\ UNCHANGED <<requestVars, html, fetchCount, fetchOk, calls, detailOut, fbOut, rawEvents,
                   monday, cursor, CALS, kept, responses, helperVars>>

\* lines 49-50
Anchor ==
    /\ pc = "anchor"
    /\ calls' = Append(calls, "getMonday")
    /\ monday' = getMonday(DateFromYMD(start), tz)
    /\ CALS' = <<>>
    /\ pc' = "project"
    /\ UNCHANGED <<requestVars, html, fetchCount, fetchOk, detailOut, fbOut, rawEvents,
                   cursor, kept, responses, helperVars>>

(***************************************************************************)
(* Grid projection.  A JavaScript number is [nan, v] like a Date.          *)
(***************************************************************************)
LastDayIndex == 6

\* line 52
MissingField(ev) ==
    ev.title = <<>> \/ ev.startISO.null \/ ev.endISO.null \/ ev.cal = <<>>

\* line 58: Math.floor((s.getTime() - monday.getTime()) / 86400000)
DayIndex(s, anchor) ==
    IF IsNaN(s) \/ IsNaN(anchor) THEN NaN ELSE Num((s.v - anchor.v) \div MinutesPerDay)

\* line 59: dayIndex < 0 || dayIndex > 6; both comparisons are false of NaN
OutOfWeek(dayIndex) ==
    ~IsNaN(dayIndex) /\ (dayIndex.v < 0 \/ dayIndex.v > LastDayIndex)

\* replace(/\s+/g, "")
stripSpaces(s) == SelectSeq(s, LAMBDA c : ~IsSpace(c))
\* line 66: ev.cal.toLowerCase().replace(/\s+/g, "") || "schedule"
slug(cal) ==
    LET k == stripSpaces(toLowerCase(cal)) IN IF k = <<>> THEN <<"s", "c", "h", "e", "d", "u", "l", "e">> ELSE k

\* lines 61-77: the GridEvent of a raw event (n: its place in rawEvents)
GridEvent(ev, dayIndex, zone, n) ==
    [id |-> <<ev.title, ev.startISO>>,
     name |-> ev.title,
     dayIndex |-> dayIndex,
     startMinutes |-> MinutesOfDay(DateFromISO(ev.startISO), zone),
     endMinutes |-> MinutesOfDay(DateFromISO(ev.endISO), zone),
     color |-> colorForCal(ev.cal),
     n |-> n]

\* lines 68-69 with the new event put first
pushFront(cals, key, label, g) ==
    IF key \in DOMAIN cals
    THEN [cals EXCEPT ![key].events = <<g>> \o @]
    ELSE [k \in DOMAIN cals \cup {key} |->
             IF k = key THEN [label |-> label, events |-> <<g>>] ELSE cals[k]]
\* lines 68-69
push(cals, key, label, g) ==
    IF key \in DOMAIN cals
    THEN [cals EXCEPT ![key].events = Append(@, g)]
    ELSE [k \in DOMAIN cals \cup {key} |->
             IF k = key THEN [label |-> label, events |-> <<g>>] ELSE cals[k]]

\* lines 81-86, answering 404 when nothing was found
ResponseOrNotFound(cals, dbg) ==
    IF DOMAIN cals = {}
    THEN [status |-> 404, kind |-> "error", error |-> [message |-> "No events", code |-> 0],
          CALS |-> <<>>]
    ELSE [status |-> 200, kind |-> IF dbg THEN "debug" ELSE "cals",
          error |-> [message |-> "", code |-> 0], CALS |-> cals]
\* lines 81-86
SuccessResponse(cals, dbg) ==
    [status |-> 200, kind |-> IF dbg THEN "debug" ELSE "cals",
     error |-> [message |-> "", code |-> 0], CALS |-> cals]

\* lines 51-78: one iteration of the loop over rawEvents
ProjectStep ==
    /\ pc = "project"
    /\ cursor <= Len(rawEvents)
    /\ LET ev == rawEvents[cursor]
           s == DateFromISO(ev.startISO)
           e == DateFromISO(ev.endISO)
           dayIndex == DayIndex(s, monday)
       IN IF MissingField(ev) \/ IsNaN(s) \/ IsNaN(e) \/ OutOfWeek(dayIndex)
          THEN UNCHANGED <<CALS, kept>>
          ELSE /\ CALS' = push(CALS, slug(ev.cal), ev.cal, GridEvent(ev, dayIndex, tz, cursor))
               /\ kept' = Append(kept, cursor)
    /\ cursor' = cursor + 1
    /\ UNCHANGED <<pc, requestVars, html, fetchCount, fetchOk, calls, detailOut, fbOut,
                   rawEvents, monday, responses, helperVars>>

\* lines 81-86
Respond ==
    /\ pc = "project"
    /\ cursor > Len(rawEvents)
    /\ responses' = Append(responses, SuccessResponse(CALS, debug))
    /\ pc' = "done"
    /\ UNCHANGED <<requestVars, html, fetchCount, fetchOk, calls, detailOut, fbOut,
                   rawEvents, monday, cursor, CALS, kept, helperVars>>

Next ==
    \/ Validate
    \/ Fetch
    \/ FetchThrows
    \/ ParseStructured
    \/ UseFallback
    \/ SkipFallback
    \/ Anchor
    \/ ProjectStep
    \/ Respond

Spec == Init /\ [][Next]_vars

(***************************************************************************)
(* Properties of the handler.                                              *)
(***************************************************************************)
Called(f) == \E i \in DOMAIN calls : calls[i] = f
TimesCalled(f) == Cardinality({i \in DOMAIN calls : calls[i] = f})
PastParsing == pc \in {"anchor", "project", "done"} /\ Called("parseDetailHtml")

\* C1: parseFallback runs if and only if parseDetailHtml returned no events, it
\* never runs when parseDetailHtml returned at least one, and the events handed
\* to the grid projection are the output of exactly one of the two parsers.
C1_FallbackIffStructuredEmpty ==
    /\ Called("parseFallback") => Called("parseDetailHtml") /\ detailOut.events = <<>>
    /\ TimesCalled("parseFallback") <= 1
    /\ PastParsing =>
          /\ Called("parseFallback") <=> detailOut.events = <<>>
          /\ rawEvents = IF Called("parseFallback") THEN fbOut.events ELSE detailOut.events
          /\ \A i \in DOMAIN rawEvents :
                rawEvents[i].at[1] = IF Called("parseFallback")
                                     THEN fbOut.events[i].at[1]
                                     ELSE detailOut.diag.table

C1_Witness ==
    /\ pc = "done"
    /\ detailOut.diag.foundTable
    /\ detailOut.events = <<>>
    /\ Called("parseFallback")
    /\ fbOut.events # <<>>
    /\ kept # <<>>

\* C2: the fetch is issued at most once and never when start or end fails the
\* date-range validation; a validation failure ends the request with one error
\* response before any fetch or parser step; a fetch failure ends it with one
\* error response, no retry, and neither parser nor the projection running.
C2_FetchOnceAndOnlyWhenValid ==
    /\ fetchCount <= 1
    /\ Len(responses) <= 1
    /\ fetchCount > 0 => IsYMD(start) /\ IsYMD(end)
    /\ (~IsYMD(start) \/ ~IsYMD(end)) =>
          /\ calls = <<>>
          /\ pc = "done" =>
                /\ Len(responses) = 1
                /\ responses[1].kind = "error"
                /\ responses[1].status = 400
    /\ (pc = "done" /\ fetchCount > 0 /\ ~fetchOk) =>
          /\ calls = <<"fetchHtml">>
          /\ Len(responses) = 1
          /\ responses[1].kind = "error"
          /\ rawEvents = <<>> /\ CALS = <<>> /\ kept = <<>>

C2_Witness ==
    /\ pc = "done"
    /\ fetchCount = 1
    /\ ~fetchOk
    /\ responses = <<ErrorResponse(500, "Fetch failed", 404)>>

StartIsCalendarDate ==
    /\ IsYMD(start)
    /\ DigitValue(start[6]) * 10 + DigitValue(start[7]) \in 1..12
    /\ DigitValue(start[9]) * 10 + DigitValue(start[10]) \in 1..28
StartLocalMidnight ==
    DayNumber(DigitValue(start[6]) * 10 + DigitValue(start[7]),
              DigitValue(start[9]) * 10 + DigitValue(start[10])) * MinutesPerDay - tz

\* C5: the week anchor is local midnight of the Monday of the Monday-to-Sunday
\* week that contains the request's start date, in every host zone: it is a
\* Monday, not after the start date, and the start date is fewer than 7 days
\* after it.
C5_AnchorIsMondayOfStartWeek ==
    (Called("getMonday") /\ StartIsCalendarDate) =>
        /\ ~IsNaN(monday)
        /\ (monday.v + tz) % (DaysPerWeek * MinutesPerDay) = 0
        /\ monday.v <= StartLocalMidnight
        /\ StartLocalMidnight < monday.v + DaysPerWeek * MinutesPerDay

\* whole days from the anchor to the start of raw event n, when both are instants
WholeDays(n) == (rawEvents[n].startISO.utc - monday.v) \div MinutesPerDay
InWeek(n) == ~IsNaN(monday) /\ WholeDays(n) \in 0..6
AllGridEvents ==
    UNION {{CALS[k].events[i] : i \in DOMAIN CALS[k].events} : k \in DOMAIN CALS}
Jan15 == Num(DayNumber(1, 15) * MinutesPerDay - tz)
LocalInstant(dd, hh, mi) ==
    DayNumber(1, dd) * MinutesPerDay + hh * MinutesPerHour + mi - tz

\* C6: the projection keeps an event if and only if the whole number of days from
\* the anchor to its start lies in 0..6, a kept event's dayIndex is that number,
\* so every GridEvent has dayIndex in 0..6; with the anchor Monday 2024-01-15 an
\* event starting 2024-01-21 23:59 local is kept with dayIndex 6 and one starting
\* 2024-01-22 00:00 local, or before the anchor, is dropped.
C6_KeptIffDayInWeek ==
    (pc \in {"project", "done"} /\ Called("getMonday")) =>
        /\ \A n \in 1..(cursor - 1) : (\E i \in DOMAIN kept : kept[i] = n) <=> InWeek(n)
        /\ \A g \in AllGridEvents :
              /\ ~IsNaN(g.dayIndex)
              /\ g.dayIndex.v \in 0..6
              /\ g.dayIndex.v = WholeDays(g.n)
        /\ monday = Jan15 =>
              \A n \in 1..(cursor - 1) :
                 /\ rawEvents[n].startISO.utc = LocalInstant(21, 23, 59) =>
                       \E g \in AllGridEvents : g.n = n /\ g.dayIndex = Num(6)
                 /\ (\/ rawEvents[n].startISO.utc >= LocalInstant(22, 0, 0)
                     \/ rawEvents[n].startISO.utc < Jan15.v) =>
                       \A g \in AllGridEvents : g.n # n

\* the slug of each calendar name
KeyOf(cal) ==
    CASE cal = Aquatics -> <<"a", "q", "u", "a", "t", "i", "c", "s">>
      [] cal = CourtSports -> <<"c", "o", "u", "r", "t", "s", "p", "o", "r", "t", "s">>
      [] cal = Community -> <<"c", "o", "m", "m", "u", "n", "i", "t", "y">>
      [] cal = Schedule -> <<"s", "c", "h", "e", "d", "u", "l", "e">>
Places(n) ==
    {p \in UNION {{<<k, i>> : i \in DOMAIN CALS[k].events} : k \in DOMAIN CALS} :
        CALS[p[1]].events[p[2]].n = n}

\* C8: each kept event is in exactly one bucket, the one keyed by the lowercased,
\* whitespace-stripped calendar name; the events of a bucket are in the order of
\* their source rows; a bucket's label is the calendar name of the first kept
\* event of that key.
C8_BucketsPartitionInOrder ==
    pc \in {"project", "done"} =>
        /\ \A i \in DOMAIN kept :
              /\ Cardinality(Places(kept[i])) = 1
              /\ \A p \in Places(kept[i]) : p[1] = KeyOf(rawEvents[kept[i]].cal)
        /\ \A k \in DOMAIN CALS :
              /\ CALS[k].events # <<>>
              /\ \A i \in DOMAIN CALS[k].events :
                    /\ \E j \in DOMAIN kept : kept[j] = CALS[k].events[i].n
                    /\ CALS[k].events[i].name = rawEvents[CALS[k].events[i].n].title
              /\ \A i, j \in DOMAIN CALS[k].events :
                    i < j => CALS[k].events[i].n < CALS[k].events[j].n
              /\ CALS[k].label = rawEvents[CALS[k].events[1].n].cal
              /\ \A j \in DOMAIN kept :
                    KeyOf(rawEvents[kept[j]].cal) = k => CALS[k].events[1].n <= kept[j]

C8_Witness ==
    /\ pc = "done"
    /\ Cardinality(DOMAIN CALS) >= 2
    /\ \E k \in DOMAIN CALS : Len(CALS[k].events) >= 2
    /\ responses[1].CALS = CALS

(***************************************************************************)
(* Header-role resolution applied to one header row.                       *)
(***************************************************************************)
MaxHeaders == 4    \* header cells of the resolved table

HeaderPool == {<<"D", "a", "t", "e">>, <<"T", "i", "m", "e">>, <<"A", "c", "t", "i", "v", "i", "t", "y">>, <<"L", "o", "c", "a", "t", "i", "o", "n">>, <<"C", "l", "a", "s", "s">>, <<"D", "a", "t", "e", "/", "T", "i", "m", "e">>,
               <<"R", "o", "o", "m">>}

InitHeaders ==
    /\ HandlerIdle
    /\ arg \in SeqsUpTo(HeaderPool, MaxHeaders)
    /\ ret = [idx |-> NoIdx, actCell |-> 0]
    /\ returned = FALSE

\* lines 127-135 and the activity cell of line 144
Resolve ==
    /\ ~returned
    /\ ret' = [idx |-> ResolveHeaders(arg),
               actCell |-> ActCellIndex(ResolveHeaders(arg).idxAct)]
    /\ returned' = TRUE
    /\ UNCHANGED <<arg, handlerVars>>

SpecHeaders == InitHeaders /\ [][Resolve]_vars

HeaderHasKey(h, keys) == \E n \in DOMAIN keys : includes(toLowerCase(h), keys[n])
\* the first column, from the left, whose header contains any key of the role
LeftmostColumn(idx, keys) ==
    /\ idx \in -1..(Len(arg) - 1)
    /\ idx = -1 <=> \A i \in DOMAIN arg : ~HeaderHasKey(arg[i], keys)
    /\ idx >= 0 =>
          /\ HeaderHasKey(arg[idx + 1], keys)
          /\ \A i \in 1..idx : ~HeaderHasKey(arg[i], keys)
ExamplesResolve ==
    /\ arg = <<<<"D", "a", "t", "e">>, <<"T", "i", "m", "e">>, <<"A", "c", "t", "i", "v", "i", "t", "y">>, <<"L", "o", "c", "a", "t", "i", "o", "n">>>> =>
          <<ret.idx.idxDate, ret.idx.idxTime, ret.idx.idxAct, ret.idx.idxLoc>> = <<0, 1, 2, 3>>
    /\ arg = <<<<"C", "l", "a", "s", "s">>, <<"D", "a", "t", "e", "/", "T", "i", "m", "e">>, <<"R", "o", "o", "m">>>> => ret.idx.idxAct = 0
UnresolvedActivityReadsFirst ==
    ret.actCell = IF ret.idx.idxAct = -1 THEN 0 ELSE ret.idx.idxAct

\* C9 as stated: each role resolves to the column whose header contains the
\* earliest keyword of the role's ordered list that any header contains, to -1
\* when none matches, and an unresolved activity role reads column 0.
C9_EarliestKeywordWins ==
    returned =>
        /\ ret.idx.idxDate = findHeaderByKeyOrder(ret.idx.headers, DateKeys)
        /\ ret.idx.idxTime = findHeaderByKeyOrder(ret.idx.headers, TimeKeys)
        /\ ret.idx.idxAct = findHeaderByKeyOrder(ret.idx.headers, ActivityKeys)
        /\ ret.idx.idxLoc = findHeaderByKeyOrder(ret.idx.headers, LocationKeys)
        /\ UnresolvedActivityReadsFirst
        /\ ExamplesResolve

\* C9 amended: each role resolves to the leftmost column whose lowercased header
\* contains any keyword of the role's list, whatever the keyword's place in the
\* list, to -1 when no header contains one, and an unresolved activity role reads
\* column 0; the two example header rows resolve as stated.
C9_LeftmostHeaderWins ==
    returned =>
        /\ LeftmostColumn(ret.idx.idxDate, DateKeys)
        /\ LeftmostColumn(ret.idx.idxTime, TimeKeys)
        /\ LeftmostColumn(ret.idx.idxAct, ActivityKeys)
        /\ LeftmostColumn(ret.idx.idxLoc, LocationKeys)
        /\ UnresolvedActivityReadsFirst
        /\ ExamplesResolve

C9_Witness ==
    /\ returned
    /\ arg = <<<<"R", "o", "o", "m">>, <<"C", "l", "a", "s", "s">>, <<"A", "c", "t", "i", "v", "i", "t", "y">>, <<"L", "o", "c", "a", "t", "i", "o", "n">>>>
    /\ ret.idx.idxAct = 1
    /\ ret.idx.idxLoc = 0
    /\ ret.idx.idxDate = -1

(***************************************************************************)
(* parseDetailHtml applied to documents of several tables.                 *)
(***************************************************************************)
MaxShapes == 3     \* table elements of a parsed document

\* a header row without body rows
HeadOnlyTable == [th |-> Th3, rows |-> <<>>]
SecondTable ==
    [th |-> Th3,
     rows |-> <<
        <<Cell(<<"1/17/2024">>), Cell(Slot("10:00 AM", "11:30 AM")),
          Linked(<<"P", "i", "c", "k", "l", "e", "b", "a", "l", "l">>)>> >>]
ShapePool == {WeekTable, NarrowTable, HeadOnlyTable, BrokenTable, SecondTable}

InitTables ==
    /\ HandlerIdle
    /\ arg \in [tables : SeqsUpTo(ShapePool, MaxShapes), items : {<<>>}]
    /\ ret = NoDetail
    /\ returned = FALSE

ParseTables ==
    /\ ~returned
    /\ ret' = parseDetailHtml(arg, 0)
    /\ returned' = TRUE
    /\ UNCHANGED <<arg, handlerVars>>

SpecTables == InitTables /\ [][ParseTables]_vars

\* at least 3 header cells and at least one data row
Eligible == {i \in DOMAIN arg.tables :
                Len(arg.tables[i].th) >= 3 /\ Len(arg.tables[i].rows) >= 1}
Alone(i) == [tables |-> <<arg.tables[i]>>, items |-> <<>>]

\* C10: parseDetailHtml reads the first table, in document order, that has at
\* least 3 header cells and at least one data row, ignoring later qualifying and
\* earlier non-qualifying tables; with no such table it returns no events, reports
\* foundTable = false and extracts no row.
C10_FirstQualifyingTable ==
    returned =>
        /\ ret.diag.foundTable <=> Eligible # {}
        /\ Eligible = {} => ret.events = <<>> /\ ret.diag.table = 0
        /\ Eligible # {} =>
              /\ ret.diag.table \in Eligible
              /\ \A i \in Eligible : ret.diag.table <= i
              /\ \A n \in DOMAIN ret.events : ret.events[n].at[1] = ret.diag.table
              /\ Len(ret.events) = Len(parseDetailHtml(Alone(ret.diag.table), 0).events)

C10_Witness ==
    /\ returned
    /\ arg.tables = <<NarrowTable, SecondTable, WeekTable>>
    /\ ret.diag.foundTable
    /\ ret.diag.table = 2
    /\ Len(ret.events) = 1

(***************************************************************************)
(* The two parsers applied to one table of rows.                           *)
(***************************************************************************)
MaxRows == 2       \* body rows of the parsed table

GoodRow ==
    <<Cell(<<"01/15/2024">>), Cell(Slot("10:00 AM", "11:30 AM")), Linked(<<"A", "q", "u", "a", " ", "F", "i", "t">>),
      Cell(<<"P", "o", "o", "l">>)>>
\* date and time only inside the activity cell
LooseRow ==
    <<Cell(<<>>), Cell(<<>>),
      [text |-> <<"O", "p", "e", "n", " ", "G", "y", "m">> \o <<" ", "1/17/2024", " ", "9:00PM", "&ndash;", "11:59 PM">>,
       link |-> <<"O", "p", "e", "n", " ", "G", "y", "m">>],
      Cell(<<>>)>>
NoTitleRow ==
    <<Cell(<<"01/15/2024">>), Cell(Slot("10:00 AM", "11:30 AM")), Cell(<<" ", "\n">>),
      Cell(<<"P", "o", "o", "l">>)>>
NoDateRow ==
    <<Cell(<<"T", "B", "D">>), Cell(Slot("10:00 AM", "11:30 AM")), Linked(<<"Y", "o", "g", "a">>), Cell(<<>>)>>
NoMeridiemRow ==
    <<Cell(<<"01/15/2024">>), Cell(Slot("10:00", "11:30")), Linked(<<"Z", "u", "m", "b", "a">>), Cell(<<>>)>>
BadDateRow ==
    <<Cell(<<"13/45/2024">>), Cell(Slot("10:00 AM", "11:30 AM")), Linked(<<"T", "e", "e", "n", " ", "N", "i", "g", "h", "t">>),
      Cell(<<>>)>>
BadMinuteRow ==
    <<Cell(<<"01/15/2024">>), Cell(Slot("10:75 AM", "11:30 AM")), Linked(<<"C", "o", "f", "f", "e", "e">>),
      Cell(<<>>)>>
\* a malformed time column beside an activity cell that holds date and time
RetryRow ==
    <<Cell(<<"01/15/2024">>), Cell(Slot("10:00", "11:30")),
      [text |-> <<"S", "w", "i", "m">> \o <<" ", "1/17/2024", " ", "10:00 AM", "-", "11:30 AM">>,
       link |-> <<"S", "w", "i", "m">>],
      Cell(<<>>)>>
NoCellRow == <<>>
RowPool == {GoodRow, LooseRow, RetryRow, NoTitleRow, NoDateRow, NoMeridiemRow, BadDateRow,
            BadMinuteRow, NoCellRow}

InitRows ==
    /\ HandlerIdle
    /\ arg \in [fn : {"parseDetailHtml", "parseFallback"},
                doc : [tables : {<<[th |-> Th4, rows |-> rows]>> :
                                    rows \in SeqsUpTo(RowPool, MaxRows)},
                       items : {<<>>}],
                zone : {-300, 0}]
    /\ ret = <<>>
    /\ returned = FALSE

ApplyDetail ==
    /\ ~returned
    /\ arg.fn = "parseDetailHtml"
    /\ ret' = parseDetailHtml(arg.doc, arg.zone).events
    /\ returned' = TRUE
    /\ UNCHANGED <<arg, handlerVars>>

ApplyFallback ==
    /\ ~returned
    /\ arg.fn = "parseFallback"
    /\ ret' = parseFallback(arg.doc, arg.zone).events
    /\ returned' = TRUE
    /\ UNCHANGED <<arg, handlerVars>>

NextRows == ApplyDetail \/ ApplyFallback
SpecRows == InitRows /\ [][NextRows]_vars

ParsedRows == arg.doc.tables[1].rows
Lexemes(row) == UNION {Range(row[i].text) : i \in DOMAIN row}
\* the row's activity cell (third column of the header row) has no text
BlankTitle(row) ==
    Len(row) >= 3 /\ \A i \in DOMAIN row[3].text : IsSpace(row[3].text[i])
NoDateToken(row) == \A c \in Lexemes(row) : ~IsDateLex(c)
\* no time of the row carries AM or PM
MalformedRange(row) == \A c \in Lexemes(row) : IsTimeLex(c) => TimeLex[c].mer = ""
\* the row's date is no calendar date, or one of its times is no clock time
Unparseable(row) ==
    \/ \E c \in Lexemes(row) : IsDateLex(c) /\ DateLex[c].mm \notin 1..12
    \/ \E c \in Lexemes(row) : IsTimeLex(c) /\ TimeLex[c].mi \notin 0..59
Rejected(row) ==
    \/ row = <<>>
    \/ BlankTitle(row)
    \/ NoDateToken(row)
    \/ MalformedRange(row)
    \/ Unparseable(row)
EventsOfRow(n) == {i \in DOMAIN ret : ret[i].at = <<1, n>>}

\* C7: every event either parser returns has a non-empty trimmed title and a start
\* and an end that parsed; a row with an empty title, no date token, a malformed
\* time range or an unparseable date and time contributes no event, and the rows
\* after it are still processed.
C7_OnlyWellFormedEvents ==
    returned =>
        /\ \A i \in DOMAIN ret :
              /\ ret[i].title # <<>>
              /\ ~IsSpace(ret[i].title[1])
              /\ ~IsSpace(ret[i].title[Len(ret[i].title)])
              /\ ~ret[i].startISO.null
              /\ ~ret[i].endISO.null
        /\ \A n \in DOMAIN ParsedRows :
              Cardinality(EventsOfRow(n)) = IF Rejected(ParsedRows[n]) THEN 0 ELSE 1
        /\ \A i, j \in DOMAIN ret : i < j => ret[i].at[2] < ret[j].at[2]

C7_Witness ==
    /\ returned
    /\ arg.fn = "parseDetailHtml"
    /\ ParsedRows = <<NoMeridiemRow, GoodRow>>
    /\ Len(ret) = 1
    /\ ret[1].at = <<1, 2>>
    /\ ret[1].title = <<"A", "q", "u", "a", " ", "F", "i", "t">>
====
